---- MODULE Spec2Model ----
(***************************************************************************)
(* Skin-weight export / import / bake / unbake of maya-dev, as a state     *)
(* machine over one mesh of a Maya scene.  Two revisions of the engine     *)
(* live side by side in the repository and are modelled side by side:      *)
(*   "H"  skinning.py             (SkinHandler, Python 2 only)             *)
(*   "M"  skin_cluster_manager.py (SkinClusterManager on BaseSkinCluster)  *)
(* Python lists are sequences; a vertex id or influence index i of the     *)
(* code is position i + 1 of the sequence.  Strings stored as blind data   *)
(* are sequences of tokens.                                                *)
(***************************************************************************)
EXTENDS Integers, Sequences, FiniteSets, TLC

\* ------------------------------------------------------------------ bounds
MaxVerts == 2
\* The doubles that share one 12-significant-digit decimal, in the model.
Fine == 2

\* ------------------------------------------------------------ weight values
\* A weight w stands for the double w / One.  NaN is the float not-a-number.
NaN == -1
Half == Fine
HalfPlus == Fine + 1
One == 2 * Fine
PaintedWeights == {0, Half, HalfPlus, NaN}
MaxWeight == 2 * One

None == "None"

\* ---------------------------------------------------------- Python helpers
Min(a, b) == IF a <= b THEN a ELSE b
Ids(n) == 0 .. (n - 1)
Range(s) == {s[i] : i \in DOMAIN s}
\* list.index(x): the first position holding x (0-based); -1 stands for the
\* ValueError of a missing x.
IndexOf(s, x) ==
    IF x \in Range(s) THEN (CHOOSE i \in DOMAIN s : s[i] = x /\ \A j \in DOMAIN s : s[j] = x => i <= j) - 1
    ELSE -1
RECURSIVE Flatten(_)
Flatten(rows) == IF rows = << >> THEN << >> ELSE Head(rows) \o Flatten(Tail(rows))

\* str(float) of Python 2: '%.12g', twelve significant digits; nan for NaN.
Str12(w) == IF w = NaN THEN "nan" ELSE ToString((w \div Fine) * Fine)
\* repr(float) (and str(float) of Python 3): the shortest decimal that reads
\* back as the same double.
Repr(w) == IF w = NaN THEN "nan" ELSE ToString(w)
\* float(text)
ParseFloat(t) ==
    IF t = "nan" THEN NaN
    ELSE IF t = "0.0" THEN 0
    ELSE CHOOSE v \in 0 .. MaxWeight : ToString(v) = t
\* str(w) / "{}".format(w) under interpreter py (2 or 3).
StrOf(py, w) == IF py = 2 THEN Str12(w) ELSE Repr(w)

\* ---------------------------------------------------------------- geometry
Positions == {<<0, 0, 0>>, <<1, 0, 0>>, <<0, 1, 0>>}
Normals == {<<1, 0, 0>>, <<0, 1, 0>>}
Joints == {"jointA", "jointB"}
DistSq(p, q) ==
    (p[1] - q[1]) * (p[1] - q[1]) + (p[2] - q[2]) * (p[2] - q[2]) + (p[3] - q[3]) * (p[3] - q[3])

VARIABLES
    pos,      \* world-space position of every vertex of the mesh
    nrm,      \* world-space normal of every vertex
    infl,     \* influences of the mesh's skinCluster, in column order; << >>: no skinCluster
    weights,  \* the skinCluster's weight matrix, row-major
    locked,   \* influences whose liw (lock influence weights) flag is set
    data,     \* the last exported skinning data
    blind,    \* blind data on the mesh's vertices: snapshot id -> one string per vertex
    elsewhere,\* ids of the polyBlindData nodes on the other meshes of the scene
    ret,      \* what the last call of a utility function returned
    joints,   \* the joints of the scene, cmds.ls(type="joint", l=True)
    nodes,    \* the other nodes of the scene that a user may select
    selection,\* the host's selection, cmds.ls(selection=True)
    openChunks,\* the number of undo chunks that are open
    stack,    \* the decorated calls under way, the innermost first
    polyBlindData, \* the polyBlindData nodes of the scene, as cmds.ls lists them
    connections,   \* the connections of the dependency graph: <<source, destination>>
    last,     \* what the last operation was given and what it did
    phase     \* where the run stands: "start", then "stored" or "baked",
              \* then "edited" or "rebound", then "done"; a session goes
              \* "fresh", "first", "repainted", "second", "third", "done"

\* The state the skinning operations never touch.
hostVars == <<nodes, selection, openChunks, stack>>
dgVars == <<polyBlindData, connections>>
aside == <<ret, joints, hostVars, dgVars>>
skinVars == <<pos, nrm, infl, weights, locked, data, blind, elsewhere, last, phase>>
vars == <<pos, nrm, infl, weights, locked, data, blind, elsewhere, last, phase, aside>>

NumVerts == Len(pos)
NumInfluences == Len(infl)

\* ----------------------------------------------------------- host (Maya)
\* MFnSkinCluster.getWeights over all vertices and all influences.
GetWeights == weights
\* One row of a flat matrix m with k columns (vertex id v).
RowOf(m, k, v) == SubSeq(m, v * k + 1, v * k + k)
\* The host's normalisation of one row: every weight divided by the row's sum.
NormalizeRow(row) ==
    LET RECURSIVE Sum(_)
        Sum(r) == IF r = << >> THEN 0 ELSE Head(r) + Sum(Tail(r))
        s == Sum(row)
    IN  IF NaN \in Range(row) THEN [c \in DOMAIN row |-> NaN]
        ELSE IF s = 0 \/ s = One THEN row
        ELSE [c \in DOMAIN row |-> (row[c] * One) \div s]
NormalizeAll(m, k) == Flatten([v \in 1 .. (Len(m) \div k) |-> NormalizeRow(RowOf(m, k, v - 1))])
\* cKDTree.query: the index of a stored point at least distance to q; which
\* one among equally near points is left to the tree.
\* A tree that answers every query with its first point: C4 does not
\* survive it.
FirstPoint(pts, q) == {0}
Nearest(pts, q) ==
    {i \in Ids(Len(pts)) : \A j \in Ids(Len(pts)) : DistSq(pts[i + 1], q) <= DistSq(pts[j + 1], q)}

\* ------------------------------------------------------------------ export
\* The filter of both exports: weight_value != 0.0 and str(weight_value) != "NaN".
\* (str(nan) is "nan" under Python 2 and 3 alike.)
\* A filter that also drops the weights up to a half: the round trip of C1
\* does not survive it.
StoredAboveHalf(w) == w > Half
Stored(w) == w # 0 /\ Repr(w) # "NaN"
\* zip(influence_indexes, row) with the filter applied: (influence index, weight) pairs.
WeightPairs(row) ==
    SelectSeq([c \in DOMAIN row |-> <<c - 1, row[c]>>], LAMBDA p : Stored(p[2]))
\* A table built without the step of the range: one record per entry of
\* the matrix.
RecordPerEntry ==
    [e \in 1 .. Len(weights) |->
        [position |-> pos[Min(e, Len(pos))], normal |-> nrm[Min(e, Len(nrm))],
         weights |-> WeightPairs(SubSeq(weights, e, Min(e + Len(infl) - 1, Len(weights))))]]
\* The "verts" table both exports build: one record per row of the matrix.
VertRecords ==
    [v \in 1 .. (Len(GetWeights) \div NumInfluences) |->
        [position |-> pos[v], normal |-> nrm[v],
         weights |-> WeightPairs(RowOf(GetWeights, NumInfluences, v - 1))]]
\* SkinHandler.store_weights
StoreWeights == [rev |-> "H", influences |-> infl, verts |-> VertRecords]
\* SkinClusterManager.get_skinning_data
GetSkinningData == [rev |-> "M", influences |-> infl, verts |-> VertRecords]
\* json.dumps then json.loads of the weight file: every float goes through
\* repr and float, tuples come back as lists, vertex ids as strings.
JsonRoundTrip(d) ==
    [d EXCEPT !.verts = [v \in DOMAIN d.verts |->
        [d.verts[v] EXCEPT !.weights =
            [p \in DOMAIN d.verts[v].weights |->
                <<d.verts[v].weights[p][1], ParseFloat(Repr(d.verts[v].weights[p][2]))>>]]]]
NoData == [rev |-> "none", influences |-> << >>, verts |-> << >>]

\* ------------------------------------------------------------------ import
\* The loop of get_weight_array / _get_weight_matrix that rewrites the vertex
\* subset in place: for v in verts: verts[verts.index(v)] = points[v].
\* A rewrite by position: verts[i] = points[i].
RemapByPosition(vs, points, i) == [k \in DOMAIN vs |-> points[k]]
RECURSIVE RemapFrom(_, _, _)
RemapFrom(vs, points, i) ==
    IF i > Len(vs) THEN vs
    ELSE RemapFrom([vs EXCEPT ![IndexOf(vs, vs[i]) + 1] = points[vs[i] + 1]], points, i + 1)
Remap(vs, points) == RemapFrom(vs, points, 1)

\* The exception of the first row that raised one, or "none".
FirstErr(rows) ==
    LET bad == {t \in DOMAIN rows : rows[t].err # "none"}
    IN  IF bad = {} THEN "none" ELSE rows[CHOOSE t \in bad : \A u \in bad : t <= u].err

\* SkinHandler._get_skin_array with method=None: the stored pairs of vertex
\* vid written into a row of k zeros, each at its stored influence index.
HGetSkinArray(d, vid, k) ==
    IF vid + 1 \notin DOMAIN d.verts THEN [err |-> "KeyError", row |-> << >>]
    ELSE LET ws == d.verts[vid + 1].weights
         IN  IF \E p \in DOMAIN ws : ws[p][1] >= k
             THEN [err |-> "IndexError", row |-> << >>]
             ELSE [err |-> "none",
                   row |-> [c \in 1 .. k |->
                       LET hits == {p \in DOMAIN ws : ws[p][1] = c - 1}
                       IN  IF hits = {} THEN 0
                           ELSE ws[CHOOSE p \in hits : \A q \in hits : q <= p][2]]]

\* SkinHandler.get_weight_array.  points: the correspondence (positions,
\* normals) or the stored table itself; npoints = len(points).
HGetWeightArray(d, method, points, npoints, vertIndexes, k, cur) ==
    LET CurrentSkinArray(t) == SubSeq(cur, t * k + 1, Min(t * k + k, Len(cur)))
        vi == IF vertIndexes # << >> /\ method = "positions"
              THEN Remap(vertIndexes, points) ELSE vertIndexes
        RowFor(t) ==
            LET vid == IF method = "positions" THEN points[t + 1] ELSE t
                new == HGetSkinArray(d, vid, k)
            IN  IF vertIndexes # << >> /\ t >= Len(cur)
                THEN [err |-> "IndexError", row |-> << >>]
                ELSE IF new.err # "none" THEN new
                ELSE IF vertIndexes # << >> /\ vid \notin Range(vi)
                THEN [err |-> "none", row |-> CurrentSkinArray(t)]
                ELSE new
        rows == [t \in 1 .. npoints |-> RowFor(t - 1)]
    IN  [err |-> FirstErr(rows),
         matrix |-> IF FirstErr(rows) = "none" THEN Flatten([t \in DOMAIN rows |-> rows[t].row]) ELSE << >>]

\* SkinClusterManager._get_weight_chunk: the stored pairs of vertex vid, each
\* written at the column its influence name has in the live binding.
MGetWeightChunk(d, vid, k, influences) ==
    IF vid + 1 \notin DOMAIN d.verts THEN [err |-> "KeyError", row |-> << >>]
    ELSE LET ws == d.verts[vid + 1].weights
             Col(p) == IndexOf(influences, d.influences[ws[p][1] + 1])
         IN  IF \E p \in DOMAIN ws : Col(p) = -1
             THEN [err |-> "ValueError", row |-> << >>]
             ELSE [err |-> "none",
                   row |-> [c \in 1 .. k |->
                       LET hits == {p \in DOMAIN ws : Col(p) = c - 1}
                       IN  IF hits = {} THEN 0
                           ELSE ws[CHOOSE p \in hits : \A q \in hits : q <= p][2]]]

\* BaseSkinCluster.get_weight_chunks
GetWeightChunks ==
    [v \in 1 .. ((Len(GetWeights) + NumInfluences - 1) \div NumInfluences) |->
        SubSeq(GetWeights, (v - 1) * NumInfluences + 1, Min(v * NumInfluences, Len(GetWeights)))]

\* SkinClusterManager._get_weight_matrix.  points: the correspondence, or
\* << >> for None.
MGetWeightMatrix(d, points, verts) ==
    LET k == NumInfluences
        chunks == GetWeightChunks
        vs == IF points # << >> /\ verts # << >> THEN Remap(verts, points) ELSE verts
        RowFor(t) ==
            LET vid == IF points # << >> THEN points[t + 1] ELSE t
            IN  IF verts # << >> /\ vid \notin Range(vs)
                THEN IF vid + 1 \in DOMAIN chunks
                     THEN [err |-> "none", row |-> chunks[vid + 1]]
                     ELSE [err |-> "IndexError", row |-> << >>]
                ELSE MGetWeightChunk(d, vid, k, infl)
        rows == [t \in 1 .. NumVerts |-> RowFor(t - 1)]
    IN  [err |-> FirstErr(rows),
         matrix |-> IF FirstErr(rows) = "none" THEN Flatten([t \in DOMAIN rows |-> rows[t].row]) ELSE << >>]

\* ------------------------------------------------------- import, the calls
\* What one call did: the exception it raised, the warning it displayed,
\* whether the influences were unlocked, whether setWeights was issued and
\* with which matrix, and the correspondence it used.
Outcome(err, warn, unlocked, matrix, points) ==
    [err |-> err, warn |-> warn, unlocked |-> unlocked, called |-> err = "none" /\ unlocked,
     matrix |-> matrix, points |-> points]
StoredPositions(d) == [v \in DOMAIN d.verts |-> d.verts[v].position]
StoredNormals(d) == [v \in DOMAIN d.verts |-> d.verts[v].normal]
\* One query of the tree per target point.
Correspond(source, target) ==
    {p \in [DOMAIN target -> Ids(Len(source))] :
        \A t \in DOMAIN target : p[t] \in Nearest(source, target[t])}

\* SkinHandler.set_weights up to the setWeights call, on a binding of k
\* influences holding cur: the outcomes it can have.
HSetWeights(d, method, vertIndexes, k, cur) ==
    LET Build(m, points, npoints, warn) ==
            LET a == HGetWeightArray(d, m, points, npoints, vertIndexes, k, cur)
            IN  Outcome(a.err, warn, TRUE, a.matrix, points)
    IN  IF method = None /\ Len(d.verts) # NumVerts
        THEN {Outcome("none", "VertOrderMismatch", FALSE, << >>, << >>)}
        ELSE IF method = "positions"
        THEN {Build("positions", p, Len(p), "none") : p \in Correspond(StoredPositions(d), pos)}
        ELSE IF method = "normals"
        THEN {Build("normals", p, Len(p), "none") : p \in Correspond(StoredNormals(d), nrm)}
        ELSE {Build(None, << >>, Len(d.verts), IF method = None THEN "none" ELSE "InvalidMethod")}

\* SkinClusterManager._get_points: the correspondences it can return
\* (position and normal); any other method raises TypeError.
MGetPoints(d, importMethod) ==
    IF importMethod = "position" THEN Correspond(StoredPositions(d), pos)
    ELSE Correspond(StoredNormals(d), pos)

\* SkinClusterManager.set_skinning_data up to the set_weights call.
MSetSkinningData(d, importMethod, verts) ==
    LET Build(points) ==
            LET a == MGetWeightMatrix(d, points, verts)
            IN  Outcome(a.err, "none", TRUE, a.matrix, points)
    IN  IF importMethod = None THEN {Build(<< >>)}
        ELSE IF importMethod \in {"position", "normal"}
        THEN {Build(p) : p \in MGetPoints(d, importMethod)}
        ELSE {Outcome("TypeError", "none", FALSE, << >>, << >>)}

\* MFnSkinCluster.setWeights(path, components, influences, values, normalize)
\* on n vertices and k influences holding cur.  Neither revision looks at the
\* length of the array before the call, so an array of another length than
\* n * k meets whatever the host does with it: refuse it untouched, refuse it
\* after the entries it could place, or place those and say nothing.
HostSetWeights(cur, n, k, matrix, normalize) ==
    LET Placed == [i \in DOMAIN cur |-> IF i <= Len(matrix) THEN matrix[i] ELSE cur[i]]
    IN  IF Len(matrix) = n * k
        THEN {[w |-> IF normalize THEN NormalizeAll(matrix, k) ELSE matrix, herr |-> "none"]}
        ELSE {[w |-> cur, herr |-> "RuntimeError"],
              [w |-> Placed, herr |-> "RuntimeError"],
              [w |-> Placed, herr |-> "none"]}
\* cmds.skinCluster(influences, geometry, tsb=True): the weights the host
\* gives a fresh binding of n vertices to k influences, here most of every
\* vertex on the first influence and the rest on the second.
DefaultWeights(n, k) ==
    Flatten([v \in 1 .. n |->
                [c \in 1 .. k |-> IF k = 1 \/ (c = 1 /\ v = 1) THEN One
                                  ELSE IF c = 1 THEN One - (v - 1)
                                  ELSE IF c = 2 THEN v - 1 ELSE 0]])

\* ----------------------------------------------------------------- actions
Did(op, rev, method, verts, normalize, out, herr) ==
    [op |-> op, rev |-> rev, method |-> method, verts |-> verts, normalize |-> normalize,
     pre |-> weights, preInfl |-> infl, preLocked |-> locked,
     err |-> IF out.err # "none" THEN out.err ELSE herr,
     warn |-> out.warn, unlocked |-> out.unlocked, called |-> out.called,
     matrix |-> out.matrix, points |-> out.points, id |-> 0,
     snap |-> FALSE, given |-> 0, now |-> 0]
Quiet == Outcome("none", "none", FALSE, << >>, << >>)
Warned(w) == Outcome("none", w, FALSE, << >>, << >>)

Subsets(n) ==
    {<< >>} \cup {<<v>> : v \in Ids(n)}
            \cup {p \in Ids(n) \X Ids(n) : p[1] # p[2]}
HMethods == {None, "positions", "normals", "position"}
MMethods == {None, "position", "normal", "positions"}

\* export_weights(geometry, path)
ExportWeights ==
    /\ phase = "start"
    /\ IF infl = << >>
       THEN /\ last' = Did("export", "H", None, << >>, FALSE, Warned("NoSkinCluster"), "none")
            /\ UNCHANGED data
       ELSE /\ data' = JsonRoundTrip(StoreWeights)
            /\ last' = Did("export", "H", None, << >>, FALSE, Quiet, "none")
    /\ phase' = "stored"
    /\ UNCHANGED <<pos, nrm, infl, weights, locked, blind, elsewhere, aside>>

\* SkinClusterManager(mesh).get_skinning_data()
GetSkinningDataCall ==
    /\ phase = "start"
    /\ infl # << >>
    /\ data' = GetSkinningData
    /\ last' = Did("export", "M", None, << >>, FALSE, Quiet, "none")
    /\ phase' = "stored"
    /\ UNCHANGED <<pos, nrm, infl, weights, locked, blind, elsewhere, aside>>

\* The tail of every import: unlock, then hand the matrix to the host.
Apply(op, rev, method, verts, normalize, out, k, cur, newInfl) ==
    /\ locked' = IF out.unlocked THEN locked \ Range(newInfl) ELSE locked
    /\ infl' = newInfl
    /\ IF out.called
       THEN \E h \in HostSetWeights(cur, NumVerts, k, out.matrix, normalize) :
                /\ weights' = h.w
                /\ last' = Did(op, rev, method, verts, normalize, out, h.herr)
       ELSE /\ weights' = cur
            /\ last' = Did(op, rev, method, verts, normalize, out, "none")
    /\ phase' = "done"
    /\ UNCHANGED <<pos, nrm, data, blind, elsewhere, aside>>

\* cmds.listRelatives(geometry, shapes=True): a transform without a shape
\* node has no points.
HasShape == pos # << >>
\* The binding an import gives up on creating.
CreatedBinding(d) == d.influences
\* The binding after an import that found none and was given vert_indexes:
\* it returns before create_skin_cluster_from_geometry.
BindingOnAbort(d) == infl

\* create_skin_cluster_from_geometry(geometry, influences): the influences
\* of the binding it leaves.  The names the scene does not hold are set
\* aside; with no joint in the scene at all it returns without a binding,
\* else it binds to the names that are left.
CreateSkinClusterFromGeometry(influences) ==
    LET existing == SelectSeq(influences, LAMBDA j : j \in joints)
    IN  IF existing # influences /\ joints = {} THEN << >> ELSE existing

\* import_weights(geometry, path, method, vert_indexes=...)
ImportWeights(method, vertIndexes) ==
    /\ phase \in {"stored", "edited"}
    /\ IF data.rev # "H"
       THEN Apply("import", "H", method, vertIndexes, FALSE, Warned("NoFile"),
                  NumInfluences, weights, infl)
       ELSE IF ~HasShape
       THEN Apply("import", "H", method, vertIndexes, FALSE, Warned("NotGeometry"),
                  NumInfluences, weights, infl)
       ELSE LET m == IF method = None /\ Len(data.verts) # NumVerts THEN "positions" ELSE method
            IN  IF infl = << >> /\ vertIndexes # << >>
                THEN Apply("import", "H", method, vertIndexes, FALSE, Warned("NoSkinCluster"),
                           NumInfluences, weights, BindingOnAbort(data))
                ELSE LET newInfl == IF infl = << >>
                                    THEN CreateSkinClusterFromGeometry(data.influences)
                                    ELSE infl
                         cur == IF infl = << >>
                                THEN DefaultWeights(NumVerts, Len(newInfl)) ELSE weights
                     IN  IF newInfl = << >>
                         THEN Apply("import", "H", method, vertIndexes, FALSE,
                                    Outcome("AttributeError", "none", FALSE, << >>, << >>),
                                    0, weights, infl)
                         ELSE \E out \in HSetWeights(data, m, vertIndexes, Len(newInfl), cur) :
                                  Apply("import", "H", method, vertIndexes, FALSE, out,
                                        Len(newInfl), cur, newInfl)

\* SkinHandler(skin_cluster_name).set_weights(data, method, vert_indexes=...)
SetWeights(method, vertIndexes) ==
    /\ phase \in {"stored", "edited"}
    /\ data.rev = "H"
    /\ infl # << >>
    /\ \E out \in HSetWeights(data, method, vertIndexes, NumInfluences, weights) :
           Apply("set_weights", "H", method, vertIndexes, FALSE, out, NumInfluences, weights, infl)

\* SkinClusterManager(mesh).set_skinning_data(data, import_method, normalize, verts=...)
SetSkinningData(importMethod, normalize, verts) ==
    /\ phase \in {"stored", "edited"}
    /\ data.rev = "M"
    /\ infl # << >>
    /\ \E out \in MSetSkinningData(data, importMethod, verts) :
           Apply("import", "M", importMethod, verts, normalize, out, NumInfluences, weights, infl)

\* BaseSkinCluster(mesh).set_weights(weight_matrix, normalize) with a matrix
\* of any length.
RawMatrix(len) == [i \in 1 .. len |-> IF i % 2 = 1 THEN One ELSE HalfPlus]
WriteRaw(len, normalize) ==
    /\ phase = "start"
    /\ infl # << >>
    /\ Apply("write", "M", None, << >>, normalize,
             [Outcome("none", "none", FALSE, RawMatrix(len), << >>) EXCEPT !.called = TRUE],
             NumInfluences, weights, infl)

\* ------------------------------------------------------------ the sessions
\* No utility function has been called yet.
NoRet == [op |-> "none"]
SceneNodes == {"nodeA", "nodeB"}
NoAside ==
    /\ ret = NoRet
    /\ joints = Joints
    /\ nodes = SceneNodes
    /\ selection = {}
    /\ openChunks = 0
    /\ stack = << >>
    /\ polyBlindData = << >>
    /\ connections = {}
NoLast ==
    [op |-> "none", rev |-> "-", method |-> None, verts |-> << >>,
     normalize |-> FALSE, pre |-> << >>, preInfl |-> << >>, preLocked |-> {},
     err |-> "none", warn |-> "none", unlocked |-> FALSE, called |-> FALSE,
     matrix |-> << >>, points |-> << >>, id |-> 0,
     snap |-> FALSE, given |-> 0, now |-> 0]
\* A mesh of n vertices at set places whose first two vertices were painted
\* with any weights; the others rest on the first influence.
InitPainted ==
    \E n \in 1 .. MaxVerts :
        /\ pos = [v \in 1 .. n |-> <<v - 1, 0, 0>>]
        /\ nrm = [v \in 1 .. n |-> IF v % 2 = 1 THEN <<1, 0, 0>> ELSE <<0, 1, 0>>]
        /\ infl = <<"jointA", "jointB">>
        /\ \E painted \in [1 .. (2 * Min(n, 2)) -> PaintedWeights] :
               weights = [i \in 1 .. (2 * n) |->
                             IF i <= Len(painted) THEN painted[i]
                             ELSE IF i % 2 = 1 THEN One ELSE 0]
        /\ locked = {"jointB"}
        /\ data = NoData
        /\ blind = << >>
        /\ elsewhere = {}
        /\ NoAside
        /\ phase = "start"
        /\ last = NoLast

\* A posed mesh: n vertices on the axes and at the origin, every vertex with
\* weights of its own.
PosedWeights(n) == Flatten([v \in 1 .. n |-> <<v - 1, One - (v - 1)>>])
InitPosed ==
    \E n \in 1 .. MaxVerts :
        /\ pos = [v \in 1 .. n |-> IF v = 1 THEN <<1, 0, 0>>
                                    ELSE IF v = 2 THEN <<0, 1, 0>> ELSE <<0, 0, 0>>]
        /\ nrm = [v \in 1 .. n |-> IF v % 2 = 1 THEN <<1, 0, 0>> ELSE <<0, 1, 0>>]
        /\ infl = <<"jointA", "jointB">>
        /\ weights = PosedWeights(n)
        /\ locked = {"jointB"}
        /\ data = NoData
        /\ blind = << >>
        /\ elsewhere = {}
        /\ NoAside
        /\ phase = "start"
        /\ last = NoLast

\* The geometry argument of the import names another mesh than the one the
\* data was exported from: n vertices of its own, bound to the same
\* influences or not bound at all.
SelectGeometry(n, p, nr, bound) ==
    /\ phase = "stored"
    /\ pos' = p
    /\ nrm' = nr
    /\ infl' = IF bound THEN <<"jointA", "jointB">> ELSE << >>
    /\ weights' = IF bound THEN DefaultWeights(n, 2) ELSE << >>
    /\ locked' = IF bound THEN {"jointB"} ELSE {}
    /\ phase' = "edited"
    /\ last' = [NoLast EXCEPT !.op = "select"]
    /\ UNCHANGED <<data, blind, elsewhere, aside>>

\* ------------------------------------------------------------- blind data
\* DEFAULT_BLIND_DATA_ID = datetime.now().year
DEFAULT_BLIND_DATA_ID == 2026
\* int(time.time()) at the first bake of a session; a later call may read
\* the same second or the next.
Epoch == 1700000000
Times == {Epoch, Epoch + 1}
Max(S) == CHOOSE x \in S : \A y \in S : y <= x
\* cmds.ls(type="polyBlindData") and their typeId: the nodes of this mesh
\* and those of the other meshes of the scene.
AllBlindDataIds == DOMAIN blind \cup elsewhere
\* The candidate alone, whatever the scene records.
TimeOnly(now) == now
GetUniqueBlindDataId(now) ==
    IF now \in AllBlindDataIds THEN Max(AllBlindDataIds) + 1 ELSE now

\* A blind data string is the sequence of its pieces: "name:text|" is
\* <<name, ":", text, "|">>.
Entry(name, text) == <<name, ":", text, "|">>
RECURSIVE Join(_)
Join(piece) == IF piece = << >> THEN "" ELSE Head(piece) \o Join(Tail(piece))
\* str.split(sep)
RECURSIVE Split(_, _)
Split(text, sep) ==
    IF sep \notin Range(text) THEN <<text>>
    ELSE LET i == IndexOf(text, sep) + 1
         IN  <<SubSeq(text, 1, i - 1)>> \o Split(SubSeq(text, i + 1, Len(text)), sep)
AllButLast(s) == SubSeq(s, 1, Len(s) - 1)
WeightAt(pairs, c) == pairs[CHOOSE i \in DOMAIN pairs : pairs[i][1] = c /\ \A j \in DOMAIN pairs : pairs[j][1] = c => j <= i][2]
HasPair(pairs, c) == \E i \in DOMAIN pairs : pairs[i][1] = c

\* SkinHandler.bake: the string of one vertex, an entry "name:0.0|" for every
\* influence, replaced by "name:" + str(weight) + "|" for every stored pair.
HBlindString(pairs, influences) ==
    Flatten([c \in DOMAIN influences |->
                IF HasPair(pairs, c - 1)
                THEN Entry(influences[c], StrOf(2, WeightAt(pairs, c - 1)))
                ELSE Entry(influences[c], "0.0")])
\* SkinClusterManager.bake_weights: the string of one vertex, an entry
\* "{bone_name}:{weight_value}|" for every stored pair and nothing else.
MBlindString(pairs, influences, py) ==
    Flatten([c \in DOMAIN influences |->
                IF HasPair(pairs, c - 1)
                THEN Entry(influences[c], StrOf(py, WeightAt(pairs, c - 1)))
                ELSE << >>])
\* The blind data of one id: the string of every vertex, and for the record
\* the binding it was baked from.
Baked(rev, rows) == [rows |-> rows, rev |-> rev, infl |-> infl, weights |-> weights]
SetStringBlindData(rev, id, rows) ==
    [i \in DOMAIN blind \cup {id} |-> IF i = id THEN Baked(rev, rows) ELSE blind[i]]

\* Where a run stands after a bake: a session bakes, repaints, bakes a
\* second and a third time.
AfterBake ==
    CASE phase = "start" -> "baked"
      [] phase = "fresh" -> "first"
      [] phase = "repainted" -> "second"
      [] OTHER -> "third"

\* bake_weights(geometry, create_snapshot) of skinning.py
BakeH(createSnapshot, now) ==
    /\ phase \in {"start", "fresh", "repainted", "second"}
    /\ IF infl = << >>
       THEN /\ last' = Did("bake", "H", None, << >>, FALSE, Warned("NoSkinCluster"), "none")
            /\ UNCHANGED blind
       ELSE LET id == IF createSnapshot THEN GetUniqueBlindDataId(now) ELSE DEFAULT_BLIND_DATA_ID
                d == StoreWeights
                rows == [v \in DOMAIN d.verts |-> HBlindString(d.verts[v].weights, infl)]
            IN  /\ blind' = SetStringBlindData("H", id, rows)
                /\ last' = [Did("bake", "H", None, << >>, FALSE, Quiet, "none")
                               EXCEPT !.id = id, !.snap = createSnapshot,
                                      !.now = IF createSnapshot THEN now ELSE 0]
    /\ phase' = AfterBake
    /\ UNCHANGED <<pos, nrm, infl, weights, locked, data, elsewhere, aside>>

\* SkinClusterManager(mesh).bake_weights(create_snapshot, blind_data_id)
\* under interpreter py
BakeM(py, createSnapshot, blindDataId, now) ==
    /\ phase \in {"start", "fresh", "repainted", "second"}
    /\ infl # << >>
    /\ LET id == IF blindDataId # 0 THEN blindDataId
                 ELSE IF createSnapshot THEN GetUniqueBlindDataId(now)
                 ELSE DEFAULT_BLIND_DATA_ID
           d == GetSkinningData
           rows == [v \in 1 .. NumVerts |-> MBlindString(d.verts[v].weights, infl, py)]
       IN  /\ blind' = SetStringBlindData("M", id, rows)
           /\ last' = [Did("bake", "M", None, << >>, FALSE, Quiet, "none")
                          EXCEPT !.id = id, !.snap = createSnapshot, !.given = blindDataId,
                                 !.now = IF blindDataId = 0 /\ createSnapshot THEN now ELSE 0]
    /\ phase' = AfterBake
    /\ UNCHANGED <<pos, nrm, infl, weights, locked, data, elsewhere, aside>>

\* The user deletes the binding, or binds the mesh anew to influences in
\* the order of their choice.
DeleteSkinCluster ==
    /\ phase = "baked"
    /\ infl # << >>
    /\ infl' = << >>
    /\ weights' = << >>
    /\ phase' = "rebound"
    /\ last' = [NoLast EXCEPT !.op = "delete"]
    /\ UNCHANGED <<pos, nrm, locked, data, blind, elsewhere, aside>>
Orders(S) == {o \in [1 .. Cardinality(S) -> S] : Range(o) = S}
Rebind(order) ==
    /\ phase = "baked"
    /\ infl' = order
    /\ weights' = DefaultWeights(NumVerts, Len(order))
    /\ phase' = "rebound"
    /\ last' = [NoLast EXCEPT !.op = "rebind"]
    /\ UNCHANGED <<pos, nrm, locked, data, blind, elsewhere, aside>>

Reverse(s) == [i \in 1 .. Len(s) |-> s[Len(s) + 1 - i]]
\* MFnMesh.getStringBlindData(component type, id, attribute): the string of
\* every vertex, which the host hands over last vertex first.
GetStringBlindData(id) == Reverse(blind[id].rows)
\* MFnMesh.getStringBlindData(vert_id, component type, id, attribute)
GetVertexStringBlindData(id, vid) == blind[id].rows[vid + 1]
\* The name and the weight of one "name:text" piece.
JointOf(influenceSet) == Join(Split(influenceSet, ":")[1])
WeightOf(influenceSet) == ParseFloat(Join(Split(influenceSet, ":")[2]))
\* The row of one blind data string on the given influences, every weight
\* at the column of its name.
ParseBlindString(text, influences) ==
    LET sets == AllButLast(Split(text, "|"))
    IN  IF \E i \in DOMAIN sets : JointOf(sets[i]) \notin Range(influences)
        THEN [err |-> "ValueError", row |-> << >>]
        ELSE [err |-> "none",
              row |-> [c \in DOMAIN influences |->
                  LET hits == {i \in DOMAIN sets : JointOf(sets[i]) = influences[c]}
                  IN  IF hits = {} THEN 0
                      ELSE WeightOf(sets[CHOOSE i \in hits : \A j \in hits : j <= i])]]
Matrix(rows) ==
    [err |-> FirstErr(rows),
     matrix |-> IF FirstErr(rows) = "none" THEN Flatten([t \in DOMAIN rows |-> rows[t].row])
                ELSE << >>]
\* The names collected without the filter: the piece after the last "|"
\* gives the empty name.
UnfilteredInfluences(strings) ==
    {JointOf(x) : x \in UNION {Range(Split(strings[v], "|")) : v \in DOMAIN strings}}
\* The names SkinHandler.unbake collects for the new binding.
BlindInfluences(strings) ==
    {JointOf(x) : x \in UNION {Range(Split(strings[v], "|")) : v \in DOMAIN strings}} \ {""}

\* unbake_weights(geometry, snapshot_id) of skinning.py
UnbakeH(snapshotId) ==
    /\ phase \in {"baked", "rebound", "second", "third"}
    /\ LET id == IF snapshotId = 0 THEN DEFAULT_BLIND_DATA_ID ELSE snapshotId
           did(out, herr) == [Did("unbake", "H", None, << >>, FALSE, out, herr) EXCEPT !.id = id]
       IN  IF ~HasShape
           THEN /\ last' = did(Warned("NotGeometry"), "none")
                /\ UNCHANGED <<infl, weights>>
           ELSE IF id \notin AllBlindDataIds
           THEN /\ last' = did(Warned("InvalidSnapshot"), "none")
                /\ UNCHANGED <<infl, weights>>
           ELSE LET strings == IF id \in DOMAIN blind THEN GetStringBlindData(id) ELSE << >>
                    names == BlindInfluences(strings)
                IN  IF names = {}
                    THEN /\ infl' = << >>
                         /\ weights' = << >>
                         /\ last' = did(Quiet, "RuntimeError")
                    ELSE \E influences \in Orders(names) :
                           LET k == Len(influences)
                               m == Matrix([v \in DOMAIN strings |->
                                       ParseBlindString(GetVertexStringBlindData(id, v - 1), influences)])
                               out == [Outcome(m.err, "none", FALSE, m.matrix, << >>)
                                          EXCEPT !.called = m.err = "none"]
                           IN  /\ infl' = influences
                               /\ \E h \in HostSetWeights(DefaultWeights(NumVerts, k), NumVerts, k,
                                                          m.matrix, FALSE) :
                                      /\ weights' = IF out.called THEN h.w
                                                    ELSE DefaultWeights(NumVerts, k)
                                      /\ last' = did(out, IF out.called THEN h.herr ELSE "none")
    /\ phase' = "done"
    /\ UNCHANGED <<pos, nrm, locked, data, blind, elsewhere, aside>>

\* SkinClusterManager(mesh).unbake_weights(blind_data_id, verts)
UnbakeM(blindDataId, verts) ==
    /\ phase \in {"baked", "rebound", "second", "third"}
    /\ infl # << >>
    /\ LET did(out, herr) ==
               [Did("unbake", "M", None, verts, TRUE, out, herr) EXCEPT !.id = blindDataId]
           chunks == GetWeightChunks
           strings == IF blindDataId \in DOMAIN blind
                      THEN Reverse(GetStringBlindData(blindDataId)) ELSE << >>
           RowFor(t) ==
               IF verts # << >> /\ t \notin Range(verts)
               THEN IF t + 1 \in DOMAIN chunks THEN [err |-> "none", row |-> chunks[t + 1]]
                    ELSE [err |-> "IndexError", row |-> << >>]
               ELSE ParseBlindString(strings[t + 1], infl)
           m == Matrix([v \in DOMAIN strings |-> RowFor(v - 1)])
           out == [Outcome(m.err, "none", FALSE, m.matrix, << >>) EXCEPT !.called = m.err = "none"]
       IN  \/ /\ blindDataId \notin DOMAIN blind
              /\ last' = did(Quiet, "RuntimeError")
              /\ UNCHANGED weights
           \/ \E h \in HostSetWeights(weights, NumVerts, NumInfluences, m.matrix, TRUE) :
                  /\ weights' = IF out.called THEN h.w ELSE weights
                  /\ last' = did(out, IF out.called THEN h.herr ELSE "none")
    /\ phase' = "done"
    /\ UNCHANGED <<pos, nrm, infl, locked, data, blind, elsewhere, aside>>

Init == InitPainted
Next ==
    \/ ExportWeights
    \/ GetSkinningDataCall
    \/ \E m \in HMethods, vi \in Subsets(NumVerts) : ImportWeights(m, vi)
    \/ \E m \in HMethods, vi \in Subsets(NumVerts) : SetWeights(m, vi)
    \/ \E m \in MMethods, nz \in BOOLEAN, vs \in Subsets(NumVerts) : SetSkinningData(m, nz, vs)
    \/ \E len \in 0 .. (NumVerts * NumInfluences + NumInfluences), nz \in BOOLEAN : WriteRaw(len, nz)
Spec == Init /\ [][Next]_vars

NextRetarget ==
    \/ ExportWeights
    \/ GetSkinningDataCall
    \/ \E n \in 1 .. MaxVerts, bound \in BOOLEAN :
           \E p \in [1 .. n -> Positions], nr \in [1 .. n -> Normals] :
               SelectGeometry(n, p, nr, bound)
    \/ \E m \in HMethods, vi \in Subsets(NumVerts) : ImportWeights(m, vi)
    \/ \E m \in HMethods, vi \in Subsets(NumVerts) : SetWeights(m, vi)
    \/ \E m \in MMethods, vs \in Subsets(NumVerts) : SetSkinningData(m, FALSE, vs)
SpecRetarget == InitPosed /\ [][NextRetarget]_vars

\* The mesh imported onto lists the influences of its binding in an order
\* of its own: skin_cluster.influenceObjects() of the live binding.
BindInOrder(order) ==
    /\ phase = "stored"
    /\ infl # << >>
    /\ infl' = order
    /\ weights' = DefaultWeights(NumVerts, Len(order))
    /\ phase' = "edited"
    /\ last' = [NoLast EXCEPT !.op = "rebind"]
    /\ UNCHANGED <<pos, nrm, locked, data, blind, elsewhere, aside>>
NextReorder ==
    \/ ExportWeights
    \/ GetSkinningDataCall
    \/ \E order \in Orders(Joints) : BindInOrder(order)
    \/ \E m \in HMethods, vi \in Subsets(NumVerts) : ImportWeights(m, vi)
    \/ \E m \in HMethods, vi \in Subsets(NumVerts) : SetWeights(m, vi)
    \/ \E m \in MMethods, vs \in Subsets(NumVerts) : SetSkinningData(m, FALSE, vs)
SpecReorder == InitPosed /\ [][NextReorder]_vars

SnapshotIds == {0, DEFAULT_BLIND_DATA_ID, Epoch}
NextBake ==
    \/ \E snap \in BOOLEAN, now \in Times : BakeH(snap, now)
    \/ \E py \in {2, 3}, snap \in BOOLEAN, id \in {0, DEFAULT_BLIND_DATA_ID + 1}, now \in Times :
           BakeM(py, snap, id, now)
    \/ DeleteSkinCluster
    \/ \E order \in Orders(Joints) : Rebind(order)
    \/ \E id \in SnapshotIds : UnbakeH(id)
    \/ \E id \in SnapshotIds \ {0}, vs \in Subsets(NumVerts) : UnbakeM(id, vs)
SpecBake == InitPainted /\ [][NextBake]_vars

\* A bound mesh whose vertices lie anywhere, two of them at the same place
\* or with the same normal included, exported and imported onto itself.
InitCoincident ==
    \E n \in 1 .. MaxVerts :
        /\ pos \in [1 .. n -> Positions]
        /\ nrm \in [1 .. n -> Normals]
        /\ infl = <<"jointA", "jointB">>
        /\ weights = PosedWeights(n)
        /\ locked = {"jointB"}
        /\ data = NoData
        /\ blind = << >>
        /\ elsewhere = {}
        /\ NoAside
        /\ phase = "start"
        /\ last = NoLast
NextCoincident ==
    \/ ExportWeights
    \/ GetSkinningDataCall
    \/ \E m \in HMethods : ImportWeights(m, << >>)
    \/ \E m \in MMethods : SetSkinningData(m, FALSE, << >>)
SpecCoincident == InitCoincident /\ [][NextCoincident]_vars

\* The weight file is taken to another scene: some of the joints, and a
\* mesh of n vertices that is not bound.
OpenScene(js, n, p, nr) ==
    /\ phase = "stored"
    /\ joints' = js
    /\ pos' = p
    /\ nrm' = nr
    /\ infl' = << >>
    /\ weights' = << >>
    /\ locked' = locked \cap js
    /\ phase' = "edited"
    /\ last' = [NoLast EXCEPT !.op = "open"]
    /\ UNCHANGED <<data, blind, elsewhere, ret, hostVars, dgVars>>
NextMissing ==
    \/ ExportWeights
    \/ \E js \in SUBSET Joints, n \in 1 .. MaxVerts :
           \E p \in [1 .. n -> Positions] :
               OpenScene(js, n, p, [v \in 1 .. n |-> <<1, 0, 0>>])
    \/ \E m \in HMethods, vi \in Subsets(NumVerts) : ImportWeights(m, vi)
SpecMissing == InitPosed /\ [][NextMissing]_vars

\* ------------------------------------------------------------- decorators
\* The depth to which decorated calls are nested.
MaxDepth == 2
\* An exception is on its way out of the innermost call under way.
Flying == ret.op = "raised" /\ stack # << >>
\* cmds.select(names, replace=True): a name that matches no node is an
\* error and leaves the selection; an empty list is an error too, or
\* clears the selection, as the host has it.
Select(names) ==
    IF ~(names \subseteq nodes) THEN {[sel |-> selection, err |-> "ValueError"]}
    ELSE IF names = {}
    THEN {[sel |-> selection, err |-> "TypeError"], [sel |-> {}, err |-> "none"]}
    ELSE {[sel |-> names, err |-> "none"]}
\* A close that is skipped when the function raised.
ChunksIfReturned(raised) == IF raised THEN openChunks ELSE openChunks - 1
\* cmds.undoInfo(closeChunk=True) in the finally clause
ChunksAfterClose(raised) == openChunks - 1
Frame(deco) == [deco |-> deco, saved |-> selection, opened |-> openChunks]
Exited(raised, err) ==
    [op |-> IF raised THEN "raised" ELSE "returned", deco |-> Head(stack).deco, err |-> err,
     saved |-> Head(stack).saved, opened |-> Head(stack).opened, depth |-> Len(stack)]

\* keep_selection's wrapper up to the call of the function: line 14
EnterKeepSelection ==
    /\ Len(stack) < MaxDepth
    /\ ~Flying
    /\ stack' = <<Frame("keep_selection")>> \o stack
    /\ ret' = [op |-> "entered"]
    /\ UNCHANGED <<skinVars, joints, dgVars, nodes, selection, openChunks>>
\* undo's wrapper up to the call of the function: line 32
EnterUndo ==
    /\ Len(stack) < MaxDepth
    /\ ~Flying
    /\ openChunks' = openChunks + 1
    /\ stack' = <<Frame("undo")>> \o stack
    /\ ret' = [op |-> "entered"]
    /\ UNCHANGED <<skinVars, joints, dgVars, nodes, selection>>
\* The function under way selects, deletes a node, or catches what a call
\* it made has raised.
SelectInBody(names) ==
    /\ stack # << >> /\ ~Flying
    /\ names \subseteq nodes
    /\ selection' = names
    /\ ret' = [op |-> "body"]
    /\ UNCHANGED <<skinVars, joints, dgVars, nodes, openChunks, stack>>
DeleteInBody(node) ==
    /\ stack # << >> /\ ~Flying
    /\ node \in nodes
    /\ nodes' = nodes \ {node}
    /\ selection' = selection \ {node}
    /\ ret' = [op |-> "body"]
    /\ UNCHANGED <<skinVars, joints, dgVars, openChunks, stack>>
CatchInBody ==
    /\ Flying
    /\ ret' = [op |-> "body"]
    /\ UNCHANGED <<skinVars, joints, hostVars, dgVars>>
\* keep_selection's wrapper from the end of the function on: the finally
\* clause, then the return or the exception.
ExitKeepSelection(raises) ==
    /\ stack # << >>
    /\ Head(stack).deco = "keep_selection"
    /\ Flying => raises
    /\ \E out \in Select(Head(stack).saved) :
           /\ selection' = out.sel
           /\ ret' = Exited(raises \/ out.err # "none",
                            IF out.err # "none" THEN out.err
                            ELSE IF raises THEN "BodyError" ELSE "none")
    /\ stack' = Tail(stack)
    /\ UNCHANGED <<skinVars, joints, dgVars, nodes, openChunks>>
\* undo's wrapper from the end of the function on
ExitUndo(raises) ==
    /\ stack # << >>
    /\ Head(stack).deco = "undo"
    /\ Flying => raises
    /\ openChunks' = ChunksAfterClose(raises)
    /\ ret' = Exited(raises, IF raises THEN "BodyError" ELSE "none")
    /\ stack' = Tail(stack)
    /\ UNCHANGED <<skinVars, joints, dgVars, nodes, selection>>
NextDecorators ==
    \/ EnterKeepSelection
    \/ EnterUndo
    \/ \E names \in SUBSET SceneNodes : SelectInBody(names)
    \/ \E node \in SceneNodes : DeleteInBody(node)
    \/ CatchInBody
    \/ \E raises \in BOOLEAN : ExitKeepSelection(raises)
    \/ \E raises \in BOOLEAN : ExitUndo(raises)
\* The user has something or nothing selected when the first call is made.
InitDecorators ==
    /\ pos = <<<<0, 0, 0>>>>
    /\ nrm = <<<<1, 0, 0>>>>
    /\ infl = << >>
    /\ weights = << >>
    /\ locked = {}
    /\ data = NoData
    /\ blind = << >>
    /\ elsewhere = {}
    /\ ret = NoRet
    /\ joints = Joints
    /\ nodes = SceneNodes
    /\ selection \in SUBSET SceneNodes
    /\ openChunks = 0
    /\ stack = << >>
    /\ polyBlindData = << >>
    /\ connections = {}
    /\ phase = "start"
    /\ last = NoLast
SpecDecorators == InitDecorators /\ [][NextDecorators]_vars

\* ------------------------------------------------------------- the KD-tree
\* The square root of n, exactly: its whole part and what n has over the
\* square of it.
Sqrt(n) ==
    LET r == CHOOSE x \in 0 .. n : x * x <= n /\ (x + 1) * (x + 1) > n
    IN  [whole |-> r, over |-> n - r * r]
\* The places of the points a tree is built from and asked about.
TreePoints == Positions \cup {<<10, 0, 0>>}
\* get_closest_point_in_kdtree(kdtree, mvector) on the tree of points:
\* kdtree.query gives (distance, index) of a nearest point; the function
\* hands back the index, kdtree.data[index] and the distance.
GetClosestPointInKdtree(points, q) ==
    {[id |-> i, point |-> points[i + 1], distance |-> Sqrt(DistSq(points[i + 1], q))] :
        i \in Nearest(points, q)}
\* One query of the tree over the points of the mesh.
QueryKdtree(q) ==
    /\ \E out \in GetClosestPointInKdtree(pos, q) :
           ret' = [op |-> "query", query |-> q, id |-> out.id, point |-> out.point,
                   distance |-> out.distance]
    /\ UNCHANGED <<skinVars, joints, hostVars, dgVars>>
InitKdtree ==
    \E n \in 1 .. MaxVerts :
        /\ pos \in [1 .. n -> TreePoints]
        /\ nrm = [v \in 1 .. n |-> <<1, 0, 0>>]
        /\ infl = << >>
        /\ weights = << >>
        /\ locked = {}
        /\ data = NoData
        /\ blind = << >>
        /\ elsewhere = {}
        /\ NoAside
        /\ phase = "start"
        /\ last = NoLast
\* The places asked about: those of the points, and one half-way between
\* two of them.
QueryPoints == TreePoints \cup {<<5, 0, 0>>}
NextKdtree == \E q \in QueryPoints : QueryKdtree(q)
SpecKdtree == InitKdtree /\ [][NextKdtree]_vars

\* Any geometry the wrappers may be handed: a transform without a shape, a
\* mesh that is not bound, a bound mesh.
InitAnyGeometry ==
    \E n \in 0 .. MaxVerts, bound \in BOOLEAN :
        /\ bound => n > 0
        /\ pos = [v \in 1 .. n |-> <<v - 1, 0, 0>>]
        /\ nrm = [v \in 1 .. n |-> IF v % 2 = 1 THEN <<1, 0, 0>> ELSE <<0, 1, 0>>]
        /\ infl = IF bound THEN <<"jointA", "jointB">> ELSE << >>
        /\ weights = IF bound THEN PosedWeights(n) ELSE << >>
        /\ locked = {"jointB"}
        /\ data = NoData
        /\ blind = << >>
        /\ elsewhere = {}
        /\ NoAside
        /\ phase = "start"
        /\ last = NoLast
NextValidate ==
    \/ ExportWeights
    \/ \E n \in 0 .. MaxVerts, bound \in BOOLEAN :
           \E p \in [1 .. n -> Positions], nr \in [1 .. n -> Normals] :
               (bound => n > 0) /\ SelectGeometry(n, p, nr, bound)
    \/ \E m \in HMethods, vi \in Subsets(NumVerts) : ImportWeights(m, vi)
    \/ \E snap \in BOOLEAN, now \in Times : BakeH(snap, now)
    \/ DeleteSkinCluster
    \/ \E id \in SnapshotIds : UnbakeH(id)
SpecValidate == InitAnyGeometry /\ [][NextValidate]_vars

\* A session on one bound vertex: the user bakes, paints, bakes again once
\* or twice and unbakes one of the snapshots.
InitSession ==
    /\ pos = <<<<0, 0, 0>>>>
    /\ nrm = <<<<1, 0, 0>>>>
    /\ infl = <<"jointA", "jointB">>
    /\ weights = <<Half, Half>>
    /\ locked = {"jointB"}
    /\ data = NoData
    /\ blind = << >>
    /\ elsewhere \in {{}, {DEFAULT_BLIND_DATA_ID}, {Epoch}}
    /\ NoAside
    /\ phase = "fresh"
    /\ last = NoLast
\* The user paints the weights of the vertex between two operations.
Paint(row) ==
    /\ phase = "first"
    /\ weights' = row
    /\ phase' = "repainted"
    /\ last' = [NoLast EXCEPT !.op = "paint"]
    /\ UNCHANGED <<pos, nrm, infl, locked, data, blind, elsewhere, aside>>
NextSession ==
    \/ \E row \in [1 .. 2 -> PaintedWeights \ {NaN}] : Paint(row)
    \/ \E snap \in BOOLEAN, now \in Times : BakeH(snap, now)
    \/ \E py \in {2, 3}, snap \in BOOLEAN, id \in {0, DEFAULT_BLIND_DATA_ID + 1}, now \in Times :
           BakeM(py, snap, id, now)
    \/ \E id \in {0} \cup AllBlindDataIds : UnbakeH(id)
    \/ \E id \in AllBlindDataIds, vs \in Subsets(NumVerts) : UnbakeM(id, vs)
SpecSession == InitSession /\ [][NextSession]_vars

\* ---------------------------------------------------- snapshot listing
\* len(str(blind_data_id)) of a positive id
RECURSIVE StrLen(_)
StrLen(id) == IF id < 10 THEN 1 ELSE 1 + StrLen(id \div 10)
\* Nothing is skipped.
SkipNone(id) == FALSE
\* "Skip nodes baked with default blind data ID."
Skipped(id) == StrLen(id) < 5
\* The ids of the entries get_connected_snapshots returns.
GetConnectedSnapshots == {id \in AllBlindDataIds : ~Skipped(id)}
\* The ids of the entries get_disconnected_snapshots returns: the nodes
\* listed on the blindDataNodes of every shape.
GetDisconnectedSnapshots == {id \in AllBlindDataIds : ~Skipped(id)}
\* get_all_snapshots: the connected entries, the list of a mesh replaced by
\* its disconnected list when there is one.
GetAllSnapshots ==
    IF GetDisconnectedSnapshots # {} THEN GetDisconnectedSnapshots ELSE GetConnectedSnapshots

\* The scene by its polyBlindData nodes, each with its typeId, the mesh whose
\* shape lists it on blindDataNodes (None: no shape does) and the first
\* transform among its outgoing dependents (None: there is none).
MaxNodes == 2
Meshes == {"meshA", "meshB"}
TypeIds == {DEFAULT_BLIND_DATA_ID, Epoch, Epoch + 1}
IdsOf(entries) == [i \in DOMAIN entries |-> entries[i].id]
\* get_blind_data_node_from_id: the first node of that typeId
GetBlindDataNodeFromId(ns, id) == ns[CHOOSE i \in DOMAIN ns : ns[i].id = id /\ \A j \in DOMAIN ns : ns[j].id = id => i <= j]
\* get_mesh_from_blind_data_node
GetMeshFromBlindDataNode(node) == node.mesh
\* get_connected_snapshots: mesh -> the ids of its entries, in order.  The
\* timestamp of an entry is a function of its id.
ConnectedSnapshots(ns) ==
    LET found == SelectSeq(ns, LAMBDA n : ~Skipped(n.id))
        MeshOf(n) == GetMeshFromBlindDataNode(GetBlindDataNodeFromId(ns, n.id))
    IN  [mesh \in {MeshOf(found[i]) : i \in DOMAIN found} |->
            IdsOf(SelectSeq(found, LAMBDA n : MeshOf(n) = mesh))]
\* get_disconnected_snapshots
DisconnectedSnapshots(ns) ==
    LET found == SelectSeq(ns, LAMBDA n : n.listed # None /\ ~Skipped(n.id))
    IN  [mesh \in {found[i].listed : i \in DOMAIN found} |->
            IdsOf(SelectSeq(found, LAMBDA n : n.listed = mesh))]
\* dict.update
Update(into, from) ==
    [key \in DOMAIN into \cup DOMAIN from |-> IF key \in DOMAIN from THEN from[key] ELSE into[key]]
\* get_all_snapshots()
GetAllSnapshotsCall ==
    /\ ret.op = "none"
    /\ ret' = [op |-> "snapshots",
               connected |-> ConnectedSnapshots(polyBlindData),
               disconnected |-> DisconnectedSnapshots(polyBlindData),
               all |-> Update(ConnectedSnapshots(polyBlindData),
                              DisconnectedSnapshots(polyBlindData))]
    /\ UNCHANGED <<skinVars, joints, hostVars, dgVars>>
InitSnapshots ==
    /\ pos = <<<<0, 0, 0>>>>
    /\ nrm = <<<<1, 0, 0>>>>
    /\ infl = << >>
    /\ weights = << >>
    /\ locked = {}
    /\ data = NoData
    /\ blind = << >>
    /\ \E n \in 0 .. MaxNodes :
           /\ polyBlindData \in [1 .. n -> [id : TypeIds, listed : Meshes \cup {None},
                                            mesh : Meshes \cup {None}]]
           /\ \A i, j \in 1 .. n : polyBlindData[i].id = polyBlindData[j].id => i = j
    /\ elsewhere = Range(IdsOf(polyBlindData))
    /\ ret = NoRet
    /\ joints = Joints
    /\ nodes = SceneNodes
    /\ selection = {}
    /\ openChunks = 0
    /\ stack = << >>
    /\ connections = {}
    /\ phase = "start"
    /\ last = NoLast
NextSnapshots == GetAllSnapshotsCall
SpecSnapshots == InitSnapshots /\ [][NextSnapshots]_vars

\* ------------------------------------------------- the subset rewritten
\* The ids of the meshes on either side of a correspondence.
MaxIds == 3
\* The loop on its own: a subset of distinct target ids and the stored id
\* the correspondence gives every target vertex.
ConvertVerts(verts, points) ==
    /\ ret.op = "none"
    /\ ret' = [op |-> "remap", verts |-> verts, points |-> points, out |-> Remap(verts, points)]
    /\ UNCHANGED <<skinVars, joints, hostVars, dgVars>>
\* The lists of n distinct ids.
DistinctIds(n) == {verts \in [1 .. n -> Ids(MaxIds)] : \A i, j \in 1 .. n : verts[i] = verts[j] => i = j}
NextRemap ==
    /\ ret.op = "none"
    /\ \E n \in 1 .. MaxIds :
           \E verts \in DistinctIds(n), points \in [1 .. MaxIds -> Ids(MaxIds)] :
               ConvertVerts(verts, points)
SpecRemap == InitPosed /\ [][NextRemap]_vars

\* ---------------------------------------------------- graph traversal
DgNodes == {"n1", "n2", "n3"}
\* The largest max_depth a caller passes.
MaxHops == 2
\* max_depth=None, the default
NoLimit == -1
\* cmds.listConnections(list(start_nodes), source=..., destination=...), the
\* nodes by their long names: the sources of the connections into the start
\* nodes (incoming), or the destinations of those out of them (outgoing).
ListConnections(startNodes, direction) ==
    IF direction = "incoming"
    THEN {c[1] : c \in {c \in connections : c[2] \in startNodes}}
    ELSE {c[2] : c \in {c \in connections : c[1] \in startNodes}}
\* Every connected node, visited or not.
AllConnected(found, visited) == found
\* set(cmds.ls(connections, l=True)).difference(nodes)
NonVisited(found, visited) == found \ visited
\* find_all_incoming / find_all_outgoing up to the first call of
\* _find_all_connections
FindAll(direction, startNodes, maxDepth) ==
    /\ ret.op = "none"
    /\ ret' = [op |-> "finding", direction |-> direction, start |-> startNodes,
               maxDepth |-> maxDepth, startNodes |-> startNodes, nodes |-> {}, depth |-> 0]
    /\ UNCHANGED <<skinVars, joints, hostVars, dgVars>>
\* One call of _find_all_connections, up to its return or to the call it
\* makes of itself.  No call is deeper than there are nodes to find.
FindAllConnections ==
    /\ ret.op = "finding"
    /\ ret.depth <= Cardinality(DgNodes)
    /\ LET found == ListConnections(ret.startNodes, ret.direction)
           nonVisited == NonVisited(found, ret.nodes)
       IN  ret' = IF ret.maxDepth \notin {NoLimit, 0} /\ ret.depth > ret.maxDepth
                  THEN [ret EXCEPT !.op = "found"]
                  ELSE IF found = {}
                  THEN [ret EXCEPT !.op = "found"]
                  ELSE IF nonVisited = {}
                  THEN [ret EXCEPT !.op = "found", !.nodes = ret.nodes \cup nonVisited]
                  ELSE [ret EXCEPT !.startNodes = nonVisited,
                                   !.nodes = ret.nodes \cup nonVisited,
                                   !.depth = ret.depth + 1]
    /\ UNCHANGED <<skinVars, joints, hostVars, dgVars>>
InitGraph ==
    /\ pos = <<<<0, 0, 0>>>>
    /\ nrm = <<<<1, 0, 0>>>>
    /\ infl = << >>
    /\ weights = << >>
    /\ locked = {}
    /\ data = NoData
    /\ blind = << >>
    /\ elsewhere = {}
    /\ ret = NoRet
    /\ joints = Joints
    /\ nodes = SceneNodes
    /\ selection = {}
    /\ openChunks = 0
    /\ stack = << >>
    /\ polyBlindData = << >>
    /\ connections \in SUBSET (DgNodes \X DgNodes)
    /\ phase = "start"
    /\ last = NoLast
NextTraverse ==
    \/ \E direction \in {"incoming", "outgoing"}, startNodes \in SUBSET DgNodes \ {{}},
          maxDepth \in {NoLimit} \cup (0 .. MaxHops) :
           FindAll(direction, startNodes, maxDepth)
    \/ FindAllConnections
SpecTraverse == InitGraph /\ [][NextTraverse]_vars
\* A call under way runs on.
SpecTraverseFair == SpecTraverse /\ WF_vars(FindAllConnections)

\* ------------------------------------------------------------------ claims
Imported == last.op \in {"import", "set_weights"}
\* The data at hand was exported by the revision that now imports it.
OwnData == data.rev = last.rev

C2_Sparsity ==
    \A v \in DOMAIN data.verts :
        \A i \in DOMAIN data.verts[v].weights :
            /\ data.verts[v].weights[i][2] # 0
            /\ data.verts[v].weights[i][2] # NaN

\* C8: a write whose matrix length differs from vertex count x influence
\* count fails, and the weights read back afterwards are the weights before.
C8_MismatchedWriteFails ==
    (last.op = "write" /\ Len(last.matrix) # Len(last.pre))
        => /\ last.err # "none"
           /\ weights = last.pre

\* --------------------------------------------------- claims on re-targeting
\* The dense row of a stored vertex record, by stored influence index.
Dense(pairs, k) ==
    [c \in 1 .. k |->
        IF \E i \in DOMAIN pairs : pairs[i][1] = c - 1
        THEN pairs[CHOOSE i \in DOMAIN pairs : pairs[i][1] = c - 1][2]
        ELSE 0]
StoredRow(s) == Dense(data.verts[s + 1].weights, NumInfluences)
WrittenRow(t) == RowOf(last.matrix, NumInfluences, t)
LiveRow(t) == RowOf(last.pre, NumInfluences, t)
NearestByPosition(s, t) ==
    \A j \in DOMAIN data.verts :
        DistSq(data.verts[s + 1].position, pos[t + 1]) <= DistSq(data.verts[j].position, pos[t + 1])
NearestByNormal(s, t) ==
    \A j \in DOMAIN data.verts :
        DistSq(data.verts[s + 1].normal, nrm[t + 1]) <= DistSq(data.verts[j].normal, nrm[t + 1])
StoredIds == Ids(Len(data.verts))
ByPosition == (last.rev = "H" /\ last.method = "positions") \/ (last.rev = "M" /\ last.method = "position")
ByNormal == (last.rev = "H" /\ last.method = "normals") \/ (last.rev = "M" /\ last.method = "normal")
Unrecognized == (last.rev = "H" /\ last.method = "position") \/ (last.rev = "M" /\ last.method = "positions")
\* An import of the revision's own data onto the influences of the data.
Retargeted == Imported /\ OwnData /\ infl = data.influences
\* The import gave up before building a matrix and said so.
GaveUp == last.warn \in {"NoFile", "NoSkinCluster", "VertOrderMismatch"}

\* C4: with method position and no vertex subset, the import hands the host
\* a matrix whose row for every target vertex t is the dense row of a stored
\* vertex nearest to t's position; the stored vertex count may differ.
C4_PositionRetarget ==
    (Retargeted /\ ByPosition /\ last.verts = << >>)
        => /\ last.called
           /\ Len(last.matrix) = NumVerts * NumInfluences
           /\ \A t \in Ids(NumVerts) :
                  \E s \in StoredIds : NearestByPosition(s, t) /\ WrittenRow(t) = StoredRow(s)
C4_Witness ==
    /\ Retargeted /\ ByPosition /\ last.verts = << >>
    /\ last.called
    /\ Len(data.verts) = 2 /\ NumVerts = 1
    /\ ~ NearestByPosition(0, 0)
    /\ WrittenRow(0) = StoredRow(1)

\* C5: with method normal, the row written for every target vertex t is the
\* dense row of a stored vertex whose normal is nearest to t's own normal.
C5_NormalRetarget ==
    (Retargeted /\ ByNormal /\ last.verts = << >>)
        => /\ last.called
           /\ \A t \in Ids(NumVerts) :
                  \E s \in StoredIds : NearestByNormal(s, t) /\ WrittenRow(t) = StoredRow(s)

\* The stored vertices a method allows for target vertex t.
Sources(t) ==
    IF ByPosition THEN {s \in StoredIds : NearestByPosition(s, t)}
    ELSE IF ByNormal THEN {s \in StoredIds : NearestByNormal(s, t)}
    ELSE {t} \cap StoredIds

\* C6: when an import with a vertex subset S hands the host a matrix, the
\* row of every target vertex outside S is that vertex's own row before the
\* import, and the row of every vertex in S is the stored row its method
\* gives it; for vertex order and for the nearest-neighbour methods alike.
C6_SubsetRestriction ==
    (Retargeted /\ last.verts # << >> /\ ~ Unrecognized /\ last.called)
        => \A t \in Ids(NumVerts) :
               IF t \in Range(last.verts)
               THEN \E s \in Sources(t) : WrittenRow(t) = StoredRow(s)
               ELSE WrittenRow(t) = LiveRow(t)

\* C7: an import that does not give up hands the host a matrix of exactly
\* vertex count x influence count entries, whatever the method and the
\* stored vertex count.
C7_MatrixSize ==
    (Retargeted /\ ~ GaveUp)
        => /\ last.called
           /\ Len(last.matrix) = NumVerts * NumInfluences

\* C9: an import with no method, onto a mesh whose vertex count differs from
\* the stored one, either leaves the weights as they were or hands the host
\* the rows of the nearest stored positions.
C9_NoVertexOrderOnMismatch ==
    (Retargeted /\ last.method = None /\ last.verts = << >> /\ Len(data.verts) # NumVerts)
        => \/ ~ last.called /\ (last.warn # "none" \/ last.err # "none")
                            /\ (last.preInfl # << >> => weights = last.pre)
           \/ /\ last.called
              /\ Len(last.matrix) = NumVerts * NumInfluences
              /\ \A t \in Ids(NumVerts) :
                     \E s \in StoredIds : NearestByPosition(s, t) /\ WrittenRow(t) = StoredRow(s)

\* The matrices the same call makes when it is given no method.
WithoutMethod ==
    IF last.rev = "M"
    THEN {o.matrix : o \in {x \in MSetSkinningData(data, None, last.verts) : x.called}}
    ELSE LET m == IF last.op = "import" /\ Len(data.verts) # NumVerts THEN "positions" ELSE None
             cur == IF last.preInfl = << >> THEN DefaultWeights(NumVerts, NumInfluences)
                    ELSE last.pre
         IN  {o.matrix : o \in {x \in HSetWeights(data, m, last.verts, NumInfluences, cur) : x.called}}

\* C10: an import with an unrecognized method raises nothing, reports the
\* method, and hands the host the matrix the same call makes with no method.
C10_UnrecognizedMethod ==
    (Retargeted /\ Unrecognized /\ last.verts = << >>)
        => /\ last.err = "none"
           /\ last.warn = "InvalidMethod"
           /\ last.called
           /\ last.matrix \in WithoutMethod

\* --------------------------------------------------- claims on blind data
\* The weight vertex v carries for the influence of the given name (0.0 if
\* the binding has no such influence).
Carried(m, influences, v, name) ==
    IF name \in Range(influences) THEN m[v * Len(influences) + IndexOf(influences, name) + 1] ELSE 0
Unbaked == last.op = "unbake" /\ last.id \in DOMAIN blind /\ last.verts = << >>

\* C3: after an unbake of a snapshot id, every vertex carries for every
\* influence name the weight it had when that id was baked, whatever the
\* column order of the binding it is unbaked onto.
C3_BakeUnbakeByName ==
    (Unbaked /\ blind[last.id].rev = last.rev)
        => /\ last.err = "none"
           /\ \A v \in Ids(NumVerts), name \in Range(blind[last.id].infl) :
                  Carried(weights, infl, v, name)
                      = Carried(blind[last.id].weights, blind[last.id].infl, v, name)

\* The influences still locked when the last operation reached the host.
LockedAtWrite == IF last.unlocked THEN last.preLocked \ Range(infl) ELSE last.preLocked

\* C11: whenever an import or an unbake issues its write, no influence of
\* the binding written to is locked at that moment.
C11_UnlockBeforeWrite ==
    (last.op \in {"import", "set_weights", "unbake"} /\ last.called)
        => LockedAtWrite \cap Range(infl) = {}

\* The last operation was a bake that asked for a fresh id and got one.
SnapshotBaked ==
    last.op = "bake" /\ last.snap /\ last.given = 0 /\ last.warn = "none"

\* C12: the id a create-snapshot bake stores under is not yet recorded in
\* the scene, and is greater than the time-based candidate when that one
\* is recorded already; so every such bake adds a snapshot of its own.
C12_UniqueSnapshotId ==
    [][SnapshotBaked' =>
          /\ last'.id \notin AllBlindDataIds
          /\ last'.now \in AllBlindDataIds => last'.id > last'.now
          /\ Cardinality(DOMAIN blind') = Cardinality(DOMAIN blind) + 1]_vars
\* Three snapshots baked in the same second.
C12_Witness ==
    /\ SnapshotBaked
    /\ last.now \in AllBlindDataIds
    /\ last.id # last.now
    /\ Cardinality(DOMAIN blind) = 3
    /\ \A i \in DOMAIN blind : i >= Epoch

Enumerated == GetConnectedSnapshots \cup GetDisconnectedSnapshots \cup GetAllSnapshots

\* C13: every id that the snapshot listings return has at least 5 decimal
\* digits, and the default per-year id is never among them.
C13_DefaultIdFiltered ==
    \A id \in Enumerated : id >= 10000 /\ id # DEFAULT_BLIND_DATA_ID
\* A mesh baked under the default id and under a snapshot id: only the
\* snapshot is listed.
C13_Witness ==
    /\ DEFAULT_BLIND_DATA_ID \in DOMAIN blind
    /\ Enumerated \cap DOMAIN blind # {}
    /\ DEFAULT_BLIND_DATA_ID \notin Enumerated

\* One of the wrappers of skinning.py gave up on a validation error.
Rejected ==
    /\ last.rev = "H"
    /\ last.op \in {"export", "import", "bake", "unbake"}
    /\ last.warn \in {"NoSkinCluster", "NoFile", "NotGeometry", "InvalidSnapshot"}

\* C14: a step in which export, import, bake or unbake returns early on a
\* validation error changes nothing in the scene: binding, weights, locks,
\* weight file and blind data are as before.
C14_NoPartialEffect ==
    [][Rejected' => UNCHANGED <<pos, nrm, infl, weights, locked, data, blind, elsewhere>>]_vars
\* An import on given vertices of a mesh that is not bound, with the weight
\* file in place.
C14_Witness ==
    /\ Rejected
    /\ last.op = "import"
    /\ last.warn = "NoSkinCluster"
    /\ last.verts # << >>
    /\ data.rev = "H"
    /\ infl = << >>

\* C15: an unbake of skinning.py under an id that this geometry holds no
\* blind data for is reported as not a valid snapshot and leaves the
\* geometry's binding and weights as they were.
C15_UnknownSnapshotHarmless ==
    (last.op = "unbake" /\ last.rev = "H" /\ HasShape /\ last.id \notin DOMAIN blind)
        => /\ last.warn = "InvalidSnapshot"
           /\ infl = last.preInfl
           /\ weights = last.pre

\* The "name:text" pieces of one baked string, in order.
Pieces(text) == AllButLast(Split(text, "|"))
\* The columns of a row whose weight is not zero, in order.
NonzeroColumns(row) == SelectSeq([c \in DOMAIN row |-> c], LAMBDA c : row[c] # 0)

\* C16: the string baked for a vertex holds one "name:weight|" piece for
\* every influence whose weight on the vertex was not zero at the bake, in
\* column order, and no piece for any other influence.
C16_BakeRecordFormat ==
    \A id \in DOMAIN blind :
        LET b == blind[id]
        IN  \A v \in DOMAIN b.rows :
                LET row == RowOf(b.weights, Len(b.infl), v - 1)
                    cols == NonzeroColumns(row)
                    pieces == Pieces(b.rows[v])
                IN  /\ Len(pieces) = Len(cols)
                    /\ \A i \in DOMAIN cols :
                           /\ JointOf(pieces[i]) = b.infl[cols[i]]
                           /\ Join(Split(pieces[i], ":")[2])
                                  \in {StrOf(2, row[cols[i]]), StrOf(3, row[cols[i]])}

\* The last operation was a bake that stored a snapshot.
BakeDone == last.op = "bake" /\ last.warn = "none"

\* C17: a bake with the create-snapshot flag stores under an id the scene
\* does not record yet; a bake without it stores under the id it was given,
\* else under the default id; either way the snapshots under every other
\* id stay as they were.
C17_BakeIdSelection ==
    [][BakeDone' =>
          /\ IF last'.snap THEN last'.id \notin AllBlindDataIds
             ELSE last'.id = IF last'.given # 0 THEN last'.given ELSE DEFAULT_BLIND_DATA_ID
          /\ DOMAIN blind' = DOMAIN blind \cup {last'.id}
          /\ \A i \in DOMAIN blind \ {last'.id} : blind'[i] = blind[i]
          /\ blind'[last'.id].weights = weights]_vars

\* The last operation unbaked one of several snapshots of the mesh.
UnbakedOneOfMany == Unbaked /\ Cardinality(DOMAIN blind) >= 2

\* C18: with snapshots baked under several ids, an unbake of one id leaves
\* every vertex with the weight every influence had when that id was last
\* baked, whatever was baked under the other ids.
C18_SnapshotsIndependent ==
    (UnbakedOneOfMany /\ blind[last.id].rev = last.rev)
        => /\ last.err = "none"
           /\ \A name \in Range(blind[last.id].infl) :
                  Carried(weights, infl, 0, name)
                      = Carried(blind[last.id].weights, blind[last.id].infl, 0, name)

\* The names that occur in the records of a snapshot of the mesh.
RecordedNames(id) ==
    IF id \in DOMAIN blind
    THEN {JointOf(p) : p \in UNION {Range(Pieces(blind[id].rows[v])) : v \in DOMAIN blind[id].rows}}
    ELSE {}
\* The last operation was an unbake of skinning.py that went past validation.
UnbakeHRan == last.op = "unbake" /\ last.rev = "H" /\ last.warn = "none"

\* C19: after an unbake of skinning.py the mesh is bound to exactly the
\* influence names that occur in the records of the snapshot, and never to
\* the empty name.
C19_UnbakeInfluences ==
    UnbakeHRan => Range(infl) = RecordedNames(last.id) /\ "" \notin Range(infl)
\* A snapshot whose records name jointB alone, unbaked onto a mesh that was
\* bound to both joints.
C19_Witness ==
    /\ UnbakeHRan
    /\ last.err = "none"
    /\ Range(last.preInfl) = {"jointA", "jointB"}
    /\ RecordedNames(last.id) = {"jointB"}
    /\ infl = <<"jointB">>

\* The points the last import built its tree from, and the points it
\* looked up in it.
SourcePoints == IF ByPosition THEN StoredPositions(data) ELSE StoredNormals(data)
TargetPoints == IF last.rev = "H" /\ ByNormal THEN nrm ELSE pos
\* The last import matched a list of points against itself.
SamePoints ==
    /\ Imported /\ OwnData
    /\ ByPosition \/ ByNormal
    /\ last.points # << >>
    /\ SourcePoints = TargetPoints
PairwiseDistinct(pts) == \A i, j \in DOMAIN pts : pts[i] = pts[j] => i = j

\* C20: the correspondence of a list of points with itself maps every
\* target index to the same source index, at distance 0.
C20_SelfCorrespondence ==
    SamePoints =>
        \A t \in DOMAIN last.points :
            /\ last.points[t] = t - 1
            /\ DistSq(SourcePoints[last.points[t] + 1], TargetPoints[t]) = 0
\* C20 as the code has it: every target index is mapped to a source index
\* of the same point, at distance 0, and to the same index when no two
\* points of the list are equal.
C20_SelfCorrespondenceDistinct ==
    SamePoints =>
        \A t \in DOMAIN last.points :
            /\ DistSq(SourcePoints[last.points[t] + 1], TargetPoints[t]) = 0
            /\ PairwiseDistinct(TargetPoints) => last.points[t] = t - 1
\* Two vertices at the same place, each matched with the other.
C20_Witness ==
    /\ SamePoints
    /\ ByPosition
    /\ Len(TargetPoints) = 2
    /\ TargetPoints[1] = TargetPoints[2]
    /\ last.points = <<1, 0>>
\* Two vertices at two places, each matched with itself.
C20_DistinctWitness ==
    /\ SamePoints
    /\ ByPosition
    /\ Len(TargetPoints) = 2
    /\ TargetPoints[1] # TargetPoints[2]
    /\ last.points = <<0, 1>>

\* C21: a query of the tree returns an index, the point stored at that
\* index and the Euclidean distance from the query to it, and no point of
\* the tree is strictly closer to the query.
C21_NearestNeighbour ==
    ret.op = "query" =>
        /\ ret.id \in Ids(Len(pos))
        /\ ret.point = pos[ret.id + 1]
        /\ ret.distance.whole * ret.distance.whole + ret.distance.over
               = DistSq(pos[ret.id + 1], ret.query)
        /\ ret.distance.over < 2 * ret.distance.whole + 1
        /\ \A j \in DOMAIN pos : DistSq(pos[j], ret.query) >= DistSq(pos[ret.id + 1], ret.query)
\* Points at (0,0,0) and (10,0,0) asked about (1,0,0): index 0 at distance 1.
C21_Witness ==
    /\ ret.op = "query"
    /\ pos = <<<<0, 0, 0>>, <<10, 0, 0>>>>
    /\ ret.query = <<1, 0, 0>>
    /\ ret.id = 0
    /\ ret.distance = [whole |-> 1, over |-> 0]

\* The last import had to create the binding, and the scene lacks one of
\* the influences of the weight file.
ReboundWithMissing ==
    /\ last.op = "import" /\ last.rev = "H"
    /\ last.warn \notin {"NoFile", "NotGeometry", "NoSkinCluster"}
    /\ last.preInfl = << >>
    /\ ~(Range(data.influences) \subseteq joints)

\* C22: an import that has to create the binding while an influence of the
\* weight file is not in the scene fails with a missing-influence error and
\* creates no binding.
C22_MissingInfluence ==
    ReboundWithMissing => last.err = "MissingInfluenceError" /\ infl = << >>

\* A call wrapped by keep_selection has just returned or raised.
KeepSelectionExited == ret.op \in {"returned", "raised"} /\ ret.deco = "keep_selection"

\* C23: when a call wrapped by keep_selection returns or raises, the
\* selection is the one the wrapper found when it was entered.
C23_KeepSelection == KeepSelectionExited => selection = ret.saved

\* The chunks opened by the calls under way.
RECURSIVE OpenedBy(_)
OpenedBy(frames) ==
    IF frames = << >> THEN 0
    ELSE (IF Head(frames).deco = "undo" THEN 1 ELSE 0) + OpenedBy(Tail(frames))
\* A call wrapped by undo has just returned or raised.
UndoExited == ret.op \in {"returned", "raised"} /\ ret.deco = "undo"

\* C24: a call wrapped by undo leaves, on return and on exception alike,
\* as many chunks open as it found; the open chunks are those of the calls
\* under way, and none is open once every call has exited.
C24_UndoChunksClosed ==
    /\ UndoExited => openChunks = ret.opened
    /\ openChunks = OpenedBy(stack)
    /\ stack = << >> => openChunks = 0
\* A nested wrapped call has raised inside another wrapped call.
C24_Witness ==
    /\ UndoExited
    /\ ret.op = "raised"
    /\ ret.depth = MaxDepth
    /\ ret.opened = 1
    /\ openChunks = 1

\* The weight a stored vertex record gives the influence of a name.
StoredWeight(v, name) ==
    LET pairs == data.verts[v].weights
        hits == {i \in DOMAIN pairs : data.influences[pairs[i][1] + 1] = name}
    IN  IF hits = {} THEN 0 ELSE pairs[CHOOSE i \in hits : TRUE][2]
\* An import in vertex order, with no vertex subset, of the importing
\* revision's own data onto a binding of the stored names.
OntoSameNames ==
    /\ Imported /\ OwnData /\ last.method = None /\ last.verts = << >>
    /\ Len(data.verts) = NumVerts
    /\ Range(infl) = Range(data.influences) /\ Len(infl) = Len(data.influences)

\* C25: an import onto a binding of the stored names, in whatever order it
\* lists them, hands the host for every vertex and every name the weight the
\* stored record gives that name.
C25_ColumnsByName ==
    OntoSameNames
        => /\ last.called
           /\ \A v \in 1 .. NumVerts : \A name \in Range(infl) :
                  WrittenRow(v - 1)[IndexOf(infl, name) + 1] = StoredWeight(v, name)

\* C26: every entry that the connected scan or the disconnected scan files
\* under a mesh is in the list get_all_snapshots returns for that mesh.
C26_SnapshotsComplete ==
    ret.op = "snapshots"
        => \A scan \in {ret.connected, ret.disconnected} :
               \A mesh \in DOMAIN scan : \A i \in DOMAIN scan[mesh] :
                   /\ mesh \in DOMAIN ret.all
                   /\ scan[mesh][i] \in Range(ret.all[mesh])

\* C27: exported data holds one vertex record per vertex of the mesh, under
\* the ids 0 .. N-1, and the weight pairs of every record have strictly
\* ascending influence indexes within 0 .. K-1, K the number of influences.
C27_ExportRecords ==
    data.rev # "none"
        => /\ DOMAIN data.verts = 1 .. NumVerts
           /\ \A v \in DOMAIN data.verts :
                  LET pairs == data.verts[v].weights
                  IN  \A i \in DOMAIN pairs :
                          /\ pairs[i][1] \in Ids(Len(data.influences))
                          /\ \A j \in DOMAIN pairs : i < j => pairs[i][1] < pairs[j][1]
\* An export of the largest mesh with a record of two pairs and a record
\* that lost a pair to the filter.
C27_Witness ==
    /\ last.op = "export"
    /\ Len(data.verts) = MaxVerts
    /\ Len(data.influences) = 2
    /\ \E v, w \in DOMAIN data.verts :
           /\ Len(data.verts[v].weights) = 2
           /\ Len(data.verts[w].weights) < 2

\* The nodes within d connections of a set, the set itself among them.
RECURSIVE WithinHops(_, _, _)
WithinHops(from, direction, d) ==
    IF d = 0 THEN from
    ELSE from \cup WithinHops(ListConnections(from, direction), direction, d - 1)

\* C28: a traversal with max_depth = d, d >= 1, returns only nodes within d
\* connections of the start nodes.
C28_DepthBound ==
    (ret.op = "found" /\ ret.maxDepth \in 1 .. MaxHops)
        => ret.nodes \subseteq WithinHops(ret.start, ret.direction, ret.maxDepth)

\* C29: a traversal with max_depth = None returns, whatever the graph; every
\* call _find_all_connections makes of itself is given a set of nodes that
\* is not empty and that adds as many nodes to the visited set (the visited
\* set holds at least one node per level).
C29_TraversalTerminates ==
    /\ []((ret.op = "finding" /\ ret.depth > 0)
              => /\ ret.startNodes # {}
                 /\ ret.startNodes \subseteq ret.nodes
                 /\ Cardinality(ret.nodes) >= ret.depth)
    /\ (ret.op = "finding" /\ ret.maxDepth = NoLimit) ~> (ret.op = "found")
\* A traversal without a depth limit has returned from a node that is
\* connected to itself and lies on a cycle through every node.
C29_Witness ==
    /\ ret.op = "found" /\ ret.maxDepth = NoLimit /\ ret.direction = "outgoing"
    /\ ret.start = {"n1"}
    /\ {<<"n1", "n1">>, <<"n1", "n2">>, <<"n2", "n3">>, <<"n3", "n1">>} \subseteq connections
    /\ ret.nodes = DgNodes
    /\ ret.depth >= 2

\* C30: the list the loop leaves holds exactly the stored ids that the
\* correspondence gives the ids of the subset, whatever the correspondence.
C30_RemapValues ==
    ret.op = "remap" => Range(ret.out) = {ret.points[v + 1] : v \in Range(ret.verts)}
\* The id the first element maps to is the second element, not yet visited,
\* and the list left is not the element-wise image of the subset.
C30_Witness ==
    /\ ret.op = "remap"
    /\ Len(ret.verts) = MaxIds
    /\ ret.points[ret.verts[1] + 1] = ret.verts[2]
    /\ ret.out # [k \in DOMAIN ret.verts |-> ret.points[ret.verts[k] + 1]]
    /\ Cardinality(Range(ret.out)) = MaxIds
====
